---- MODULE Spec2Model ----
(***************************************************************************)
(* Signed-integer molecule codecs of packages/core/src/molecule/signed.ts  *)
(* (Int8, Int16LE/BE, Int32LE/BE, Int64LE/BE and their option and vector   *)
(* forms).  Two revisions of the file are modelled side by side: the       *)
(* revision "signed" (byteLength declared on every codec, decode through   *)
(* bytesFrom) and the revision "part_000" (Int8 declares no byteLength,    *)
(* decode through fixedBytesFrom).                                         *)
(*                                                                         *)
(* Integers are arbitrary-precision sign/magnitude numbers, the magnitude  *)
(* a little-endian sequence of base-256 digits, so that the 32- and 64-bit *)
(* ranges are exact.  A byte view is a Uint8Array: a backing store, a      *)
(* byteOffset and a byteLength.                                            *)
(***************************************************************************)
EXTENDS Integers, Sequences, FiniteSets, TLC

\* ---------------------------------------------------------------- bounds
MaxVecLen == 3
MaxOffset == 1
SmallInt == 3

\* ------------------------------------------------------- source revisions
Versions == {"signed", "part_000"}

PrimCodecs == {"Int8", "Int16LE", "Int16BE", "Int32LE", "Int32BE", "Int64LE", "Int64BE"}

NoLength == 0 - 1
NoSize == 0 - 1

\* ------------------------------------------------ arbitrary-precision ints
Zeros(k) == [i \in 1..k |-> 0]

Reverse(s) == [i \in 1..Len(s) |-> s[Len(s) + 1 - i]]

RECURSIVE Normalize(_)
Normalize(mag) ==
  IF mag = <<>> THEN <<>>
  ELSE IF mag[Len(mag)] = 0 THEN Normalize(SubSeq(mag, 1, Len(mag) - 1))
  ELSE mag

MkNum(neg, mag) ==
  LET m == Normalize(mag) IN [neg |-> neg /\ m # <<>>, mag |-> m]

RECURSIVE Digits(_)
Digits(m) == IF m = 0 THEN <<>> ELSE <<m % 256>> \o Digits(m \div 256)

NumOfInt(i) == IF i < 0 THEN MkNum(TRUE, Digits(0 - i)) ELSE MkNum(FALSE, Digits(i))

\* 2^k as a magnitude
Pow2Mag(k) == Zeros(k \div 8) \o <<2 ^ (k % 8)>>

\* 2^k - 1 as a magnitude
Pow2Minus1Mag(k) == [i \in 1..(k \div 8) |-> 255] \o
                    (IF k % 8 = 0 THEN <<>> ELSE <<2 ^ (k % 8) - 1>>)

RECURSIVE Inc(_)
Inc(mag) ==
  IF mag = <<>> THEN <<1>>
  ELSE IF mag[1] < 255 THEN <<mag[1] + 1>> \o Tail(mag)
  ELSE <<0>> \o Inc(Tail(mag))

\* -2^(w-1) <= n <= 2^(w-1) - 1
InRange(n, w) ==
  LET L == w \div 8 IN
  \/ Len(n.mag) < L
  \/ /\ Len(n.mag) = L
     /\ \/ n.mag[L] < 128
        \/ n.neg /\ n.mag = Pow2Mag(w - 1)

\* ------------------------------------------------------------ results
Ok(v) == [ok |-> TRUE, val |-> v]

Err(kind, msg, expected, actual) ==
  [ok |-> FALSE,
   err |-> [kind |-> kind, msg |-> msg, expected |-> expected, actual |-> actual]]

\* ------------------------------------------------------------ byte views
\* new Uint8Array(array): a fresh backing store holding exactly the bytes
FreshBytes(bs) == [store |-> bs, off |-> 0, len |-> Len(bs)]

\* the logical content of a view: bytes 0 .. byteLength-1
ViewBytes(b) == SubSeq(b.store, b.off + 1, b.off + b.len)

\* bytesFrom(bytesLike): a Uint8Array is returned as it is, an array of
\* bytes becomes a fresh Uint8Array
bytesFrom(b) ==
  IF b.kind = "array" THEN FreshBytes(b.bytes)
  ELSE [store |-> b.store, off |-> b.off, len |-> b.len]

U8(v) == [kind |-> "u8", store |-> v.store, off |-> v.off, len |-> v.len, bytes |-> <<>>]

ArrayLike(bs) == [kind |-> "array", store |-> <<>>, off |-> 0, len |-> 0, bytes |-> bs]

\* ------------------------------------------- DataView get/set (ECMAScript)
\* 2^(8 * Len(b)) - b on little-endian digits, modulo 2^(8 * Len(b))
NegateBytes(b) ==
  [i \in 1..Len(b) |->
     (256 - b[i] - (IF \E j \in 1..(i - 1) : b[j] # 0 THEN 1 ELSE 0)) % 256]

\* the byteLength low bytes of n modulo 2^(8 * byteLength), little-endian
ToTwos(n, byteLength) ==
  LET low == [i \in 1..byteLength |-> IF i <= Len(n.mag) THEN n.mag[i] ELSE 0]
  IN IF n.neg THEN NegateBytes(low) ELSE low

FromTwos(le) ==
  IF le[Len(le)] >= 128 THEN MkNum(TRUE, NegateBytes(le)) ELSE MkNum(FALSE, le)

\* Number(numLike), on the integers a double holds exactly (|n| < 2^53)
Number(numLike) == MkNum(numLike.neg, numLike.mag)

\* numFrom(numLike): the BigInt of the same integer
numFrom(numLike) == MkNum(numLike.neg, numLike.mag)

\* setInt with the littleEndian argument left out: DataView writes big-endian
setIntBigEndian(n, byteLength, littleEndian) ==
  Reverse(ToTwos(n, byteLength))

\* new Uint8Array(byteLength); new DataView(encoded.buffer).setIntN(0, n, littleEndian)
setInt(n, byteLength, littleEndian) ==
  LET encoded == Zeros(byteLength)
      le == ToTwos(n, byteLength)
      written == IF littleEndian THEN le ELSE Reverse(le)
  IN [i \in 1..Len(encoded) |-> IF i <= byteLength THEN written[i] ELSE encoded[i]]

\* getInt reading with getUintN: the bytes taken as an unsigned integer
getUint(buffer, byteLength, littleEndian) ==
  IF Len(buffer) < byteLength
  THEN Err("RangeError", "Offset is outside the bounds of the DataView", NoSize, NoSize)
  ELSE LET read == SubSeq(buffer, 1, byteLength)
       IN Ok(MkNum(FALSE, IF littleEndian THEN read ELSE Reverse(read)))

\* getInt with the littleEndian argument left out: DataView reads big-endian
getIntBigEndian(buffer, byteLength, littleEndian) ==
  IF Len(buffer) < byteLength
  THEN Err("RangeError", "Offset is outside the bounds of the DataView", NoSize, NoSize)
  ELSE Ok(FromTwos(Reverse(SubSeq(buffer, 1, byteLength))))

\* new DataView(buffer).getIntN(0, littleEndian): byteLength bytes from byte 0
\* of the ArrayBuffer; a RangeError when the ArrayBuffer is shorter
getInt(buffer, byteLength, littleEndian) ==
  IF Len(buffer) < byteLength
  THEN Err("RangeError", "Offset is outside the bounds of the DataView", NoSize, NoSize)
  ELSE LET read == SubSeq(buffer, 1, byteLength)
       IN Ok(FromTwos(IF littleEndian THEN read ELSE Reverse(read)))

\* ------------------------------------------------------------- part_000
fixedBytesFrom(bufferLike, byteLength) ==
  LET buffer == bytesFrom(bufferLike) IN
  IF buffer.len # byteLength
  THEN Err("Error", "invalid buffer size", byteLength, buffer.len)
  ELSE Ok(buffer)

\* ------------------------------------------------------ primitive codecs
Int8Encode(numLike) == Ok(setInt(Number(numLike), 1, TRUE))

Int8Decode(ver, bytesLike) ==
  IF ver = "part_000"
  THEN LET buffer == fixedBytesFrom(bytesLike, 1)
       IN IF buffer.ok THEN getInt(buffer.val.store, 1, TRUE) ELSE buffer
  ELSE LET bytes == bytesFrom(bytesLike) IN getInt(bytes.store, 1, TRUE)

int16NumberEncode(littleEndian, numLike) == Ok(setInt(Number(numLike), 2, littleEndian))

int16NumberDecode(ver, littleEndian, bytesLike) ==
  IF ver = "part_000"
  THEN LET buffer == fixedBytesFrom(bytesLike, 2)
       IN IF buffer.ok THEN getInt(buffer.val.store, 2, littleEndian) ELSE buffer
  ELSE LET bytes == bytesFrom(bytesLike) IN getInt(bytes.store, 2, littleEndian)

\* int32Number.encode writing with setInt16 into the 4-byte array
int32NumberEncodeSetInt16(littleEndian, numLike) ==
  Ok(setInt(Number(numLike), 2, littleEndian) \o <<0, 0>>)

int32NumberEncode(littleEndian, numLike) == Ok(setInt(Number(numLike), 4, littleEndian))

int32NumberDecode(ver, littleEndian, bytesLike) ==
  IF ver = "part_000"
  THEN LET buffer == fixedBytesFrom(bytesLike, 4)
       IN IF buffer.ok THEN getInt(buffer.val.store, 4, littleEndian) ELSE buffer
  ELSE LET bytes == bytesFrom(bytesLike) IN getInt(bytes.store, 4, littleEndian)

int64Encode(littleEndian, numLike) == Ok(setInt(numFrom(numLike), 8, littleEndian))

int64Decode(ver, littleEndian, bytesLike) ==
  IF ver = "part_000"
  THEN LET buffer == fixedBytesFrom(bytesLike, 8)
       IN IF buffer.ok THEN getInt(buffer.val.store, 8, littleEndian) ELSE buffer
  ELSE LET bytes == bytesFrom(bytesLike) IN getInt(bytes.store, 8, littleEndian)

Width(c) ==
  CASE c = "Int8" -> 8
    [] c \in {"Int16LE", "Int16BE"} -> 16
    [] c \in {"Int32LE", "Int32BE"} -> 32
    [] c \in {"Int64LE", "Int64BE"} -> 64

\* Int16LE = int16Number(true), Int16BE = int16Number(false), ...
LittleEndian(c) == c \in {"Int8", "Int16LE", "Int32LE", "Int64LE"}

\* the byteLength each codec hands to Codec.from; the Int8 of part_000 hands none
byteLength(ver, c) ==
  IF c = "Int8" THEN (IF ver = "part_000" THEN NoLength ELSE 1)
  ELSE Width(c) \div 8

\* Codec.from({byteLength, encode, decode}) keeps the three fields as given
CodecEncode(ver, c, numLike) ==
  CASE c = "Int8" -> Int8Encode(numLike)
    [] c \in {"Int16LE", "Int16BE"} -> int16NumberEncode(LittleEndian(c), numLike)
    [] c \in {"Int32LE", "Int32BE"} -> int32NumberEncode(LittleEndian(c), numLike)
    [] c \in {"Int64LE", "Int64BE"} -> int64Encode(LittleEndian(c), numLike)

CodecDecode(ver, c, bytesLike) ==
  CASE c = "Int8" -> Int8Decode(ver, bytesLike)
    [] c \in {"Int16LE", "Int16BE"} -> int16NumberDecode(ver, LittleEndian(c), bytesLike)
    [] c \in {"Int32LE", "Int32BE"} -> int32NumberDecode(ver, LittleEndian(c), bytesLike)
    [] c \in {"Int64LE", "Int64BE"} -> int64Decode(ver, LittleEndian(c), bytesLike)

\* ------------------------------------------------ option(innerCodec)
Absent == [some |-> FALSE, v |-> NumOfInt(0)]

Present(v) == [some |-> TRUE, v |-> v]

\* encode(absent) is the empty buffer, encode(present(v)) the inner encoding
OptionEncode(ver, c, x) ==
  IF ~x.some THEN Ok(<<>>) ELSE CodecEncode(ver, c, x.v)

\* an empty buffer is absent; otherwise the inner decode, its failure unchanged
OptionDecode(ver, c, bytesLike) ==
  IF bytesFrom(bytesLike).len = 0 THEN Ok(Absent)
  ELSE LET inner == CodecDecode(ver, c, bytesLike)
       IN IF inner.ok THEN Ok(Present(inner.val)) ELSE inner

\* ------------------------------------------------ vector(innerCodec)
RECURSIVE Concat(_)
Concat(ss) == IF ss = <<>> THEN <<>> ELSE Head(ss) \o Concat(Tail(ss))

U32LE(k) == <<k % 256, (k \div 256) % 256, (k \div 65536) % 256, (k \div 16777216) % 256>>

\* 4-byte little-endian field at byte position pos (from 0) of bs
ReadU32LE(bs, pos) ==
  bs[pos + 1] + 256 * bs[pos + 2] + 65536 * bs[pos + 3] + 16777216 * bs[pos + 4]

RECURSIVE SumLen(_)
SumLen(ss) == IF ss = <<>> THEN 0 ELSE Len(Head(ss)) + SumLen(Tail(ss))

\* fixed-item layout: u32-LE count | item_0 | ... | item_{count-1}
FixedItemVecEncode(items) == U32LE(Len(items)) \o Concat(items)

\* the count header, then exactly count * itemLength bytes, cut into chunks
FixedItemVecSplit(bs, itemLength) ==
  IF Len(bs) < 4 THEN Err("DecodeError", "no count header", 4, Len(bs))
  ELSE LET count == ReadU32LE(bs, 0)
           rest == Len(bs) - 4
       IN IF count > rest \/ count * itemLength # rest
          THEN Err("DecodeError", "item bytes do not match the count", count, rest)
          ELSE Ok([i \in 1..count |->
                     SubSeq(bs, 4 + (i - 1) * itemLength + 1, 4 + i * itemLength)])

\* variable-item layout: u32-LE total_length | offset_0 .. offset_count | items,
\* offset_0 = 4 * (count + 2), offset_count = total_length
DynItemVecOffsets(items) ==
  [i \in 1..(Len(items) + 1) |-> 4 * (Len(items) + 2) + SumLen(SubSeq(items, 1, i - 1))]

DynItemVecEncode(items) ==
  LET offsets == DynItemVecOffsets(items)
  IN U32LE(offsets[Len(offsets)])
       \o Concat([i \in 1..Len(offsets) |-> U32LE(offsets[i])])
       \o Concat(items)

\* DynItemVecSplit without the test that the offsets do not decrease
DynItemVecSplitUnordered(bs) ==
  IF Len(bs) < 4 THEN Err("DecodeError", "no length field", 4, Len(bs))
  ELSE IF ReadU32LE(bs, 0) # Len(bs)
  THEN Err("DecodeError", "total length", ReadU32LE(bs, 0), Len(bs))
  ELSE IF Len(bs) < 8 THEN Err("DecodeError", "no offset table", 8, Len(bs))
  ELSE LET first == ReadU32LE(bs, 4) IN
       IF first % 4 # 0 \/ first < 8 \/ first > Len(bs)
       THEN Err("DecodeError", "first offset", NoSize, first)
       ELSE LET count == first \div 4 - 2
                offsets == [i \in 1..(count + 1) |-> ReadU32LE(bs, 4 * i)]
            IN IF offsets[count + 1] # Len(bs)
               THEN Err("DecodeError", "last offset", Len(bs), offsets[count + 1])
               ELSE Ok([i \in 1..count |->
                          IF offsets[i] <= offsets[i + 1]
                          THEN SubSeq(bs, offsets[i] + 1, offsets[i + 1]) ELSE <<>>])

\* total length = buffer length; the first offset is the end of the offset
\* table; the offsets do not decrease; the last offset = total length
DynItemVecSplit(bs) ==
  IF Len(bs) < 4 THEN Err("DecodeError", "no length field", 4, Len(bs))
  ELSE IF ReadU32LE(bs, 0) # Len(bs)
  THEN Err("DecodeError", "total length", ReadU32LE(bs, 0), Len(bs))
  ELSE IF Len(bs) < 8 THEN Err("DecodeError", "no offset table", 8, Len(bs))
  ELSE LET first == ReadU32LE(bs, 4) IN
       IF first % 4 # 0 \/ first < 8 \/ first > Len(bs)
       THEN Err("DecodeError", "first offset", NoSize, first)
       ELSE LET count == first \div 4 - 2
                offsets == [i \in 1..(count + 1) |-> ReadU32LE(bs, 4 * i)]
            IN IF \E i \in 1..count : offsets[i + 1] < offsets[i]
               THEN Err("DecodeError", "offsets decrease", NoSize, NoSize)
               ELSE IF offsets[count + 1] # Len(bs)
               THEN Err("DecodeError", "last offset", Len(bs), offsets[count + 1])
               ELSE Ok([i \in 1..count |-> SubSeq(bs, offsets[i] + 1, offsets[i + 1])])

\* the inner results of the items; the first failure, when there is one
Collect(results) ==
  IF \A i \in 1..Len(results) : results[i].ok
  THEN Ok([i \in 1..Len(results) |-> results[i].val])
  ELSE results[CHOOSE i \in 1..Len(results) :
                 ~results[i].ok /\ \A j \in 1..(i - 1) : results[j].ok]

\* vector(c) for a primitive codec c: the layout follows c.byteLength
VectorEncode(ver, c, xs) ==
  LET items == [i \in 1..Len(xs) |-> CodecEncode(ver, c, xs[i]).val]
  IN Ok(IF byteLength(ver, c) # NoLength THEN FixedItemVecEncode(items)
        ELSE DynItemVecEncode(items))

\* every item is decoded from its own slice (a copy of its bytes)
VectorDecode(ver, c, bytesLike) ==
  LET bs == ViewBytes(bytesFrom(bytesLike))
      split == IF byteLength(ver, c) # NoLength
               THEN FixedItemVecSplit(bs, byteLength(ver, c))
               ELSE DynItemVecSplit(bs)
  IN IF ~split.ok THEN split
     ELSE Collect([i \in 1..Len(split.val) |->
                     CodecDecode(ver, c, U8(FreshBytes(split.val[i])))])

\* vector(option(c)): option(c) has no byteLength, so the variable-item layout
VecOptEncode(ver, c, xs) ==
  Ok(DynItemVecEncode([i \in 1..Len(xs) |-> OptionEncode(ver, c, xs[i]).val]))

VecOptDecode(ver, c, bytesLike) ==
  LET split == DynItemVecSplit(ViewBytes(bytesFrom(bytesLike)))
  IN IF ~split.ok THEN split
     ELSE Collect([i \in 1..Len(split.val) |->
                     OptionDecode(ver, c, U8(FreshBytes(split.val[i])))])

\* ------------------------------------------------------------- inputs
MaxNum(w) == MkNum(FALSE, Pow2Minus1Mag(w - 1))

MinNum(w) == MkNum(TRUE, Pow2Mag(w - 1))

InRangeInputs(w) ==
  {NumOfInt(i) : i \in (0 - SmallInt)..SmallInt} \cup {NumOfInt(5), MaxNum(w), MinNum(w)}

OutOfRangeInputs(w) ==
  {MkNum(FALSE, Pow2Mag(w - 1)), MkNum(TRUE, Inc(Pow2Mag(w - 1))),
   MkNum(FALSE, Pow2Minus1Mag(w)), MkNum(FALSE, Pow2Mag(w))}

NumInputs(w) == InRangeInputs(w) \cup OutOfRangeInputs(w)

\* buffers of the right length, one byte short and one byte long
BodyInputs(c) ==
  UNION {LET bs == setInt(n, Width(c) \div 8, LittleEndian(c))
         IN {bs, SubSeq(bs, 1, Len(bs) - 1), bs \o <<127>>} : n \in InRangeInputs(Width(c))}

\* Uint8Array views at byteOffset 0..MaxOffset of a backing store, and arrays
ViewInputs(c) ==
  {U8([store |-> [i \in 1..off |-> 170] \o body \o [i \in 1..pad |-> 85],
       off |-> off, len |-> Len(body)]) :
     <<body, off, pad>> \in BodyInputs(c) \X (0..MaxOffset) \X (0..1)}
  \cup {ArrayLike(body) : body \in BodyInputs(c)}

\* Int8Opt/Int8Vec, Int16Opt/Int16Vec, ... are built over Int8 and the
\* little-endian aliases Int16, Int32, Int64
DerivedOver == {"Int8", "Int16LE", "Int32LE", "Int64LE"}

SeqsUpTo(S, n) == UNION {[1..k -> S] : k \in 0..n}

OptInputs(w) == {Absent} \cup {Present(n) : n \in NumInputs(w)}

VecItems(w) == {NumOfInt(1), NumOfInt(2), NumOfInt(3), MinNum(w)}

VecInputs(w) == SeqsUpTo(VecItems(w), MaxVecLen)

OptItems(w) == {Absent, Present(NumOfInt(1)), Present(NumOfInt(0 - 1)), Present(MaxNum(w))}

VecOptInputs(w) == SeqsUpTo(OptItems(w), MaxVecLen)

Corrupt(bs, p, v) == [i \in 1..Len(bs) |-> IF i = p THEN v ELSE bs[i]]

\* vector encodings as they are, a byte short, a byte long, the count changed
VecBufInputs(v, c) ==
  UNION {LET bs == VectorEncode(v, c, xs).val
         IN {bs, SubSeq(bs, 1, Len(bs) - 1), bs \o <<1>>}
              \cup {Corrupt(bs, 1, k) : k \in 0..(MaxVecLen + 1)} :
         xs \in SeqsUpTo({NumOfInt(1), NumOfInt(0 - 1)}, MaxVecLen)}

CorruptValues == {0, 8, 12, 16, 100}

\* variable-item encodings as they are, cut short, and with one byte changed
VecOptBufInputs(v, c) ==
  UNION {LET bs == VecOptEncode(v, c, xs).val
         IN {bs, SubSeq(bs, 1, Len(bs) - 1), SubSeq(bs, 1, 4), SubSeq(bs, 1, 3)}
              \cup {Corrupt(bs, p, k) : <<p, k>> \in (1..Len(bs)) \X CorruptValues} :
         xs \in SeqsUpTo({Absent, Present(NumOfInt(1))}, MaxVecLen)}

\* ------------------------------------------------------------- state
VARIABLES ver, op, codec, arg, res, orig

vars == <<ver, op, codec, arg, res, orig>>

Init ==
  /\ ver \in Versions
  /\ op = "init"
  /\ codec = "none"
  /\ arg = <<>>
  /\ res = <<>>
  /\ orig = <<>>

Idle == op = "init"

\* codec.encode(n) on a primitive codec
Encode(c, n) ==
  /\ Idle
  /\ op' = "encode"
  /\ codec' = c
  /\ arg' = n
  /\ res' = CodecEncode(ver, c, n)
  /\ orig' = <<>>
  /\ UNCHANGED ver

\* codec.decode(codec.encode(n)): the Uint8Array encode returned is decoded
DecodeEncoded ==
  /\ op = "encode"
  /\ res.ok
  /\ op' = "decodeEncoded"
  /\ arg' = U8(FreshBytes(res.val))
  /\ res' = CodecDecode(ver, codec, arg')
  /\ orig' = arg
  /\ UNCHANGED <<ver, codec>>

\* codec.decode(bytesLike) on a primitive codec
Decode(c, b) ==
  /\ Idle
  /\ op' = "decode"
  /\ codec' = c
  /\ arg' = b
  /\ res' = CodecDecode(ver, c, b)
  /\ orig' = <<>>
  /\ UNCHANGED ver

\* option(c).encode(x)
OptEncode(c, x) ==
  /\ Idle
  /\ op' = "optEncode"
  /\ codec' = c
  /\ arg' = x
  /\ res' = OptionEncode(ver, c, x)
  /\ orig' = <<>>
  /\ UNCHANGED ver

OptDecodeEncoded ==
  /\ op = "optEncode"
  /\ res.ok
  /\ op' = "optDecodeEncoded"
  /\ arg' = U8(FreshBytes(res.val))
  /\ res' = OptionDecode(ver, codec, arg')
  /\ orig' = arg
  /\ UNCHANGED <<ver, codec>>

\* option(c).decode(bytesLike)
OptDecode(c, b) ==
  /\ Idle
  /\ op' = "optDecode"
  /\ codec' = c
  /\ arg' = b
  /\ res' = OptionDecode(ver, c, b)
  /\ orig' = <<>>
  /\ UNCHANGED ver

\* vector(c).encode(xs)
VecEncode(c, xs) ==
  /\ Idle
  /\ op' = "vecEncode"
  /\ codec' = c
  /\ arg' = xs
  /\ res' = VectorEncode(ver, c, xs)
  /\ orig' = <<>>
  /\ UNCHANGED ver

VecDecodeEncoded ==
  /\ op = "vecEncode"
  /\ res.ok
  /\ op' = "vecDecodeEncoded"
  /\ arg' = U8(FreshBytes(res.val))
  /\ res' = VectorDecode(ver, codec, arg')
  /\ orig' = arg
  /\ UNCHANGED <<ver, codec>>

\* vector(c).decode(bytesLike)
VecDecode(c, bs) ==
  /\ Idle
  /\ op' = "vecDecode"
  /\ codec' = c
  /\ arg' = ArrayLike(bs)
  /\ res' = VectorDecode(ver, c, arg')
  /\ orig' = <<>>
  /\ UNCHANGED ver

\* vector(option(c)).encode(xs)
VecOptionEncode(c, xs) ==
  /\ Idle
  /\ op' = "vecOptEncode"
  /\ codec' = c
  /\ arg' = xs
  /\ res' = VecOptEncode(ver, c, xs)
  /\ orig' = <<>>
  /\ UNCHANGED ver

VecOptionDecodeEncoded ==
  /\ op = "vecOptEncode"
  /\ res.ok
  /\ op' = "vecOptDecodeEncoded"
  /\ arg' = U8(FreshBytes(res.val))
  /\ res' = VecOptDecode(ver, codec, arg')
  /\ orig' = arg
  /\ UNCHANGED <<ver, codec>>

\* vector(option(c)).decode(bytesLike)
VecOptionDecode(c, bs) ==
  /\ Idle
  /\ op' = "vecOptDecode"
  /\ codec' = c
  /\ arg' = ArrayLike(bs)
  /\ res' = VecOptDecode(ver, c, arg')
  /\ orig' = <<>>
  /\ UNCHANGED ver

\* the call has returned; the codecs keep no state between calls
Return ==
  /\ ~Idle
  /\ op' = "init"
  /\ codec' = "none"
  /\ arg' = <<>>
  /\ res' = <<>>
  /\ orig' = <<>>
  /\ UNCHANGED ver

\* a call starts only when the caller is idle; the guard stands before the
\* quantifiers so that the inputs are enumerated only then
Next ==
  \/ Idle /\ \E c \in PrimCodecs : \E n \in NumInputs(Width(c)) : Encode(c, n)
  \/ DecodeEncoded
  \/ Idle /\ \E c \in PrimCodecs : \E b \in ViewInputs(c) : Decode(c, b)
  \/ Idle /\ \E c \in DerivedOver : \E x \in OptInputs(Width(c)) : OptEncode(c, x)
  \/ OptDecodeEncoded
  \/ Idle /\ \E c \in DerivedOver : \E b \in ViewInputs(c) : OptDecode(c, b)
  \/ Idle /\ \E c \in DerivedOver : \E xs \in VecInputs(Width(c)) : VecEncode(c, xs)
  \/ VecDecodeEncoded
  \/ Idle /\ \E c \in DerivedOver : \E bs \in VecBufInputs(ver, c) : VecDecode(c, bs)
  \/ Idle /\ \E c \in DerivedOver : \E xs \in VecOptInputs(Width(c)) : VecOptionEncode(c, xs)
  \/ VecOptionDecodeEncoded
  \/ Idle /\ \E bs \in VecOptBufInputs(ver, "Int8") : VecOptionDecode("Int8", bs)
  \/ Return

Spec == Init /\ [][Next]_vars

\* --------------------------------------------------------- properties
RECURSIVE AddMag(_, _, _)
AddMag(a, b, carry) ==
  IF a = <<>> /\ b = <<>> THEN (IF carry = 0 THEN <<>> ELSE <<carry>>)
  ELSE LET x == IF a = <<>> THEN 0 ELSE a[1]
           y == IF b = <<>> THEN 0 ELSE b[1]
           t == x + y + carry
       IN <<t % 256>> \o AddMag(IF a = <<>> THEN a ELSE Tail(a),
                                IF b = <<>> THEN b ELSE Tail(b), t \div 256)

\* the little-endian bytes le hold n modulo 2^(8 * Len(le))
RepresentsMod(le, n) ==
  IF n.neg THEN AddMag(Normalize(le), n.mag, 0) = Pow2Mag(8 * Len(le))
  ELSE Normalize(le) = n.mag

\* C1: for every primitive codec and every n in the signed range of its
\* width, decode(encode(n)) succeeds and equals n.
C1_RoundTrip ==
  (op = "decodeEncoded" /\ codec \in PrimCodecs /\ InRange(orig, Width(codec)))
    => (res.ok /\ res.val = orig)

C1_Witness ==
  /\ op = "decodeEncoded"
  /\ codec = "Int64BE"
  /\ orig = MinNum(64)
  /\ res.ok

\* C2: for every in-range n, encode(n) is the w/8-byte two's-complement
\* representation of n (n mod 2^w), least-significant byte first for LE and
\* most-significant byte first for BE, the BE bytes being the reversal of the
\* LE bytes; Int16LE.encode(1) = [1,0], Int16BE.encode(1) = [0,1],
\* Int32LE.encode(-1) = [255,255,255,255].
C2_ByteExact ==
  (op = "encode" /\ codec \in PrimCodecs /\ InRange(arg, Width(codec))) =>
    /\ res.ok
    /\ Len(res.val) = Width(codec) \div 8
    /\ RepresentsMod(IF LittleEndian(codec) THEN res.val ELSE Reverse(res.val), arg)
    /\ \A d \in PrimCodecs :
         (Width(d) = Width(codec) /\ LittleEndian(d) # LittleEndian(codec))
           => CodecEncode(ver, d, arg).val = Reverse(res.val)
    /\ (codec = "Int16LE" /\ arg = NumOfInt(1)) => res.val = <<1, 0>>
    /\ (codec = "Int16BE" /\ arg = NumOfInt(1)) => res.val = <<0, 1>>
    /\ (codec = "Int32LE" /\ arg = NumOfInt(0 - 1)) => res.val = <<255, 255, 255, 255>>

C2_Witness ==
  /\ op = "encode"
  /\ codec = "Int32BE"
  /\ arg = NumOfInt(0 - 2)
  /\ res.ok
  /\ res.val = <<255, 255, 255, 254>>

\* C3: decode(buffer) fails with an error carrying the expected size L and the
\* actual size whenever len(buffer) # L, for shorter and for longer buffers.
C3_LengthEnforced ==
  (op = "decode" /\ codec \in PrimCodecs /\ bytesFrom(arg).len # Width(codec) \div 8) =>
    /\ ~res.ok
    /\ res.err.expected = Width(codec) \div 8
    /\ res.err.actual = bytesFrom(arg).len

\* C4: encode(n) fails whenever n lies outside -2^(w-1) .. 2^(w-1)-1 and
\* never returns the bytes of a wrapped value.
C4_RangeChecked ==
  (op = "encode" /\ codec \in PrimCodecs /\ ~InRange(arg, Width(codec))) => ~res.ok

\* C5: every primitive codec, in every revision, declares the static length
\* w/8, and every encode output has that declared length.
C5_StaticLength ==
  (op = "encode" /\ codec \in PrimCodecs /\ res.ok) =>
    /\ byteLength(ver, codec) = Width(codec) \div 8
    /\ Len(res.val) = byteLength(ver, codec)

\* C10: the result of decode depends only on bytes 0 .. len-1 of the view:
\* a view at a non-zero offset of a larger backing store decodes to what a
\* fresh copy of its bytes decodes to.
C10_ViewContentOnly ==
  (op = "decode" /\ codec \in PrimCodecs /\ bytesFrom(arg).len = Width(codec) \div 8) =>
    LET copy == CodecDecode(ver, codec, U8(FreshBytes(ViewBytes(bytesFrom(arg)))))
    IN /\ res.ok = copy.ok
       /\ res.ok => res.val = copy.val

\* C6: for option(c): encode(absent) is the empty buffer and
\* encode(present(v)) is c.encode(v); decode of the empty buffer is absent and
\* decode of a non-empty b is present(c.decode(b)), an inner failure surfacing
\* unchanged; so decode(encode(x)) = x for absent and for present(v), v in range.
C6_Option ==
  /\ (op = "optEncode" /\ ~arg.some) => (res.ok /\ res.val = <<>>)
  /\ (op = "optEncode" /\ arg.some) => res = CodecEncode(ver, codec, arg.v)
  /\ (op = "optDecode" /\ bytesFrom(arg).len = 0) => (res.ok /\ res.val = Absent)
  /\ (op = "optDecode" /\ bytesFrom(arg).len # 0) =>
       LET inner == CodecDecode(ver, codec, arg)
       IN /\ res.ok = inner.ok
          /\ inner.ok => res.val = Present(inner.val)
          /\ ~inner.ok => res.err = inner.err
  /\ (op = "optDecodeEncoded" /\ (orig.some => InRange(orig.v, Width(codec))))
       => (res.ok /\ res.val = orig)

C6_Witness ==
  /\ op = "optDecodeEncoded"
  /\ codec = "Int16LE"
  /\ orig = Present(MinNum(16))
  /\ res.ok
  /\ res.val.some

\* C7: for vector(c), c of static length L: encode of N items is the 4-byte
\* little-endian count N followed by the N item encodings, 4 + N*L bytes in
\* all (Int8Vec.encode([1,2,3]) = [3,0,0,0,1,2,3]); decode returns the items
\* in order and fails when the bytes after the count are not exactly N*L.
C7_FixedVector ==
  /\ (op = "vecEncode") =>
       /\ res.ok
       /\ res.val = U32LE(Len(arg))
                      \o Concat([i \in 1..Len(arg) |-> CodecEncode(ver, codec, arg[i]).val])
       /\ Len(res.val) = 4 + Len(arg) * (Width(codec) \div 8)
  /\ (op = "vecEncode" /\ codec = "Int8"
        /\ arg = <<NumOfInt(1), NumOfInt(2), NumOfInt(3)>>)
       => res.val = <<3, 0, 0, 0, 1, 2, 3>>
  /\ (op = "vecDecodeEncoded") => (res.ok /\ res.val = orig)
  /\ (op = "vecDecode" /\ Len(arg.bytes) >= 4
        /\ Len(arg.bytes) - 4 # ReadU32LE(arg.bytes, 0) * (Width(codec) \div 8))
       => ~res.ok

\* the integrity conditions of the variable-item layout, read off the buffer
OffsetAt(bs, i) == ReadU32LE(bs, 4 + 4 * i)

IntegrityWithCount(bs, n) ==
  /\ Len(bs) >= 4 * (n + 2)
  /\ ReadU32LE(bs, 0) = Len(bs)
  /\ OffsetAt(bs, 0) = 4 * (n + 2)
  /\ \A i \in 0..(n - 1) : OffsetAt(bs, i) <= OffsetAt(bs, i + 1)
  /\ OffsetAt(bs, n) = Len(bs)

Integrity(bs) == \E n \in 0..Len(bs) : IntegrityWithCount(bs, n)

\* C8: every encode output of vector(option(Int8)) has a total-length field
\* equal to its length, a non-decreasing offset table, a first offset equal to
\* the size of length field plus offset table, and a last offset equal to the
\* total length; decode fails with a DecodeError on every buffer violating one
\* of these.
C8_OffsetIntegrity ==
  /\ (op = "vecOptEncode") => (res.ok /\ IntegrityWithCount(res.val, Len(arg)))
  /\ (op = "vecOptDecode" /\ ~Integrity(arg.bytes))
       => (~res.ok /\ res.err.kind = "DecodeError")

C8_Witness ==
  /\ op = "vecOptDecode"
  /\ codec = "Int8"
  /\ ~res.ok
  /\ res.err.msg = "offsets decrease"

\* C9: vector(option(Int32)) round-trips every sequence of 0, 1 and more
\* elements, each absent or present(n), n a signed 32-bit integer: decode of
\* the encoding succeeds and gives the sequence back, element for element.
C9_VecOptInt32RoundTrip ==
  (op = "vecOptDecodeEncoded" /\ codec = "Int32LE") => (res.ok /\ res.val = orig)

C9_Witness ==
  /\ op = "vecOptDecodeEncoded"
  /\ codec = "Int32LE"
  /\ orig = <<Present(NumOfInt(0 - 1)), Absent, Present(MaxNum(32))>>
  /\ res.ok

====
